---- MODULE Spec2Model ----
(***************************************************************************)
(* Model of file_organizar.py: the pure helpers get_unique_name and        *)
(* categorize_file, and the background thread OrganizerWorker.             *)
(*                                                                         *)
(* File names are sequences of one-character strings, so that lower(),     *)
(* endswith(), splitext() and the f-string that builds "base (N)ext" are   *)
(* computed on the characters, as the Python code computes them.           *)
(***************************************************************************)
EXTENDS Integers, Sequences, FiniteSets, TLC

(* ------------------------------ bounds -------------------------------- *)

\* Largest number of entries (files and sub-directories) in the source.
MaxEntries == 2

\* Largest number of concurrent changes another actor makes to the source
\* directory while the worker runs.
MaxEnv == 1

(* --------------------------- configuration ---------------------------- *)

\* FILE_TYPES, in declaration order (dicts keep insertion order).
CategoryOrder == <<"Images", "Documents", "Videos", "Music", "Archives">>

FILE_TYPES ==
    [Images    |-> << <<".","j","p","g">>, <<".","j","p","e","g">>,
                      <<".","p","n","g">>, <<".","g","i","f">>,
                      <<".","b","m","p">>, <<".","s","v","g">>,
                      <<".","w","e","b","p">> >>,
     Documents |-> << <<".","p","d","f">>, <<".","d","o","c","x">>,
                      <<".","d","o","c">>, <<".","t","x","t">>,
                      <<".","p","p","t","x">>, <<".","p","p","t">>,
                      <<".","x","l","s","x">>, <<".","x","l","s">>,
                      <<".","o","d","t">>, <<".","r","t","f">> >>,
     Videos    |-> << <<".","m","p","4">>, <<".","m","o","v">>,
                      <<".","a","v","i">>, <<".","m","k","v">>,
                      <<".","w","m","v">> >>,
     Music     |-> << <<".","m","p","3">>, <<".","w","a","v">>,
                      <<".","a","a","c">>, <<".","f","l","a","c">>,
                      <<".","o","g","g">> >>,
     Archives  |-> << <<".","z","i","p">>, <<".","r","a","r">>,
                      <<".","7","z">>, <<".","t","a","r">>,
                      <<".","g","z">> >>]

OTHER_FOLDER_NAME == "Others"

\* The directories the worker creates under the destination root.
AllFolders == {CategoryOrder[i] : i \in 1..Len(CategoryOrder)} \cup {OTHER_FOLDER_NAME}

(* ------------------------------ strings ------------------------------- *)

UpperChars == <<"A","B","C","D","E","F","G","H","I","J","K","L","M",
                "N","O","P","Q","R","S","T","U","V","W","X","Y","Z">>
LowerChars == <<"a","b","c","d","e","f","g","h","i","j","k","l","m",
                "n","o","p","q","r","s","t","u","v","w","x","y","z">>

\* str.lower() on one character.
LowerChar(c) ==
    IF \E i \in 1..Len(UpperChars) : UpperChars[i] = c
    THEN LowerChars[CHOOSE i \in 1..Len(UpperChars) : UpperChars[i] = c]
    ELSE c

\* str.lower()
Lower(s) == [i \in 1..Len(s) |-> LowerChar(s[i])]

\* str.endswith(suffix)
EndsWith(s, suffix) ==
    /\ Len(suffix) <= Len(s)
    /\ SubSeq(s, Len(s) - Len(suffix) + 1, Len(s)) = suffix

\* str.endswith(tuple(exts))
EndsWithAny(s, exts) == \E i \in 1..Len(exts) : EndsWith(s, exts[i])

DigitChars == <<"0","1","2","3","4","5","6","7","8","9">>

\* The decimal text of a non-negative integer, as f"{counter}" formats it.
RECURSIVE ToDec(_)
ToDec(n) ==
    IF n < 10 THEN <<DigitChars[n + 1]>>
    ELSE ToDec(n \div 10) \o <<DigitChars[(n % 10) + 1]>>

\* Index of the last "." of s, 0 when there is none (str.rfind + 1).
LastDot(s) ==
    IF \E i \in 1..Len(s) : s[i] = "."
    THEN CHOOSE i \in 1..Len(s) :
            /\ s[i] = "."
            /\ \A j \in (i+1)..Len(s) : s[j] # "."
    ELSE 0

\* os.path.splitext on a name without separators: the extension starts at
\* the last dot, unless only dots precede it (leading dots are not an
\* extension), in which case the extension is empty.
SplitExt(s) ==
    LET d == LastDot(s) IN
    IF d > 0 /\ \E k \in 1..(d-1) : s[k] # "."
    THEN <<SubSeq(s, 1, d - 1), SubSeq(s, d, Len(s))>>
    ELSE <<s, <<>> >>

\* f"{base} ({counter}){ext}"
Numbered(base, counter, ext) ==
    base \o <<" ", "(">> \o ToDec(counter) \o <<")">> \o ext

(* ------------------------------ utilities ----------------------------- *)

\* get_unique_name without the probing loop.
get_unique_name_NoProbe(dir, filename) == filename

\* get_unique_name with the counter starting at 0.
RECURSIVE UniqueLoopFromZero(_, _, _, _, _)
UniqueLoopFromZero(dir, base, ext, candidate, counter) ==
    IF candidate \in dir
    THEN UniqueLoopFromZero(dir, base, ext, Numbered(base, counter, ext), counter + 1)
    ELSE candidate

get_unique_name_FromZero(dir, filename) ==
    LET sp == SplitExt(filename) IN
    UniqueLoopFromZero(dir, sp[1], sp[2], filename, 0)

\* The while loop of get_unique_name: dir is the set of names that exist in
\* dest_dir, candidate/counter are the loop variables.
RECURSIVE UniqueLoop(_, _, _, _, _)
UniqueLoop(dir, base, ext, candidate, counter) ==
    IF candidate \in dir
    THEN UniqueLoop(dir, base, ext, Numbered(base, counter, ext), counter + 1)
    ELSE candidate

get_unique_name(dir, filename) ==
    LET sp == SplitExt(filename) IN
    UniqueLoop(dir, sp[1], sp[2], filename, 1)

\* The for loop of categorize_file over FILE_TYPES.items(), from the i-th
\* category on; "None" stands for Python's None.
RECURSIVE CategorizeFrom(_, _)
CategorizeFrom(lower, i) ==
    IF i > Len(CategoryOrder) THEN "None"
    ELSE IF EndsWithAny(lower, FILE_TYPES[CategoryOrder[i]]) THEN CategoryOrder[i]
    ELSE CategorizeFrom(lower, i + 1)

\* categorize_file without the lower() of line 57.
categorize_file_CaseSensitive(filename) == CategorizeFrom(filename, 1)

categorize_file(filename) == CategorizeFrom(Lower(filename), 1)

(* -------------------------- the file system --------------------------- *)

\* The file names the model draws the source and destination contents from.
NameAPng    == <<"a",".","p","n","g">>
NameAPngUp  == <<"a",".","P","N","G">>
NameAPng1   == <<"a"," ","(","1",")",".","p","n","g">>
NameBPdf    == <<"b",".","p","d","f">>
NameCXyz    == <<"c",".","x","y","z">>
NameDotGz   == <<".","g","z">>

Names == {NameAPng, NameAPngUp, NameAPng1, NameBPdf, NameCXyz, NameDotGz}

\* What a name is in the source directory.
EntryKinds == {"none", "file", "dir"}

\* os.path.isfile(os.path.join(source, f))
IsFile(srcdir, f) == srcdir[f] = "file"

NoFolders == [c \in AllFolders |-> {}]

\* Destination trees a run can start from: (existing folders, their entries).
InitialDestinations ==
    { <<{}, NoFolders>>,
      <<AllFolders, NoFolders>>,
      <<{"Images"}, [NoFolders EXCEPT !["Images"] = {NameAPng}]>>,
      <<AllFolders, [NoFolders EXCEPT !["Images"] = {NameAPng, NameAPng1}]>>,
      <<AllFolders, [NoFolders EXCEPT !["Images"] = {NameAPng, NameAPng1},
                                      !["Documents"] = {NameBPdf},
                                      !["Archives"] = {NameDotGz}]>> }

(* ------------------------------- events ------------------------------- *)

NoName == <<>>

\* The tuples put on queue_out.  A log line carries what its text says:
\* which of the four messages it is, the file name, and for a move the
\* category and the destination name.
EvStart(n)    == [kind |-> "start",    num |-> n, tag |-> "", name |-> NoName, cat |-> "", dest |-> NoName]
EvProgress(n) == [kind |-> "progress", num |-> n, tag |-> "", name |-> NoName, cat |-> "", dest |-> NoName]
EvDone(n)     == [kind |-> "done",     num |-> n, tag |-> "", name |-> NoName, cat |-> "", dest |-> NoName]
EvError       == [kind |-> "error",    num |-> 0, tag |-> "list", name |-> NoName, cat |-> "", dest |-> NoName]
EvCancelled   == [kind |-> "log", num |-> 0, tag |-> "cancelled", name |-> NoName, cat |-> "", dest |-> NoName]
EvSkip(f)     == [kind |-> "log", num |-> 0, tag |-> "skip",  name |-> f, cat |-> "", dest |-> NoName]
EvMoved(f, c, u) == [kind |-> "log", num |-> 0, tag |-> "moved", name |-> f, cat |-> c, dest |-> u]
EvFailed(f)   == [kind |-> "log", num |-> 0, tag |-> "error", name |-> f, cat |-> "", dest |-> NoName]

(* -------------------------------- state ------------------------------- *)

VARIABLES
    srcOK,        \* the source directory can be listed
    src,          \* source directory: name -> "none" | "file" | "dir"
    dstDirs,      \* the category folders that exist under the destination
    dst,          \* category folder -> the names that exist in it
    pc,           \* where the worker thread is in run()
    files,        \* run(): the listing
    total,        \* run(): len(files)
    moved_count,  \* run(): moved_count
    idx,          \* run(): the loop index of enumerate(files, start=1)
    stop_event,   \* OrganizerWorker._stop_event
    events,       \* every tuple put on queue_out so far, in order
    moves,        \* history: every shutil.move performed, in order
    stopCheck,    \* history: the loop index whose check was the next one
                  \* when stop() first set the flag, 0 while it is unset
    lastUnique,   \* history: the last call of get_unique_name
    envLeft,      \* changes the other actor may still make to the source
    queue,        \* FileOrganizerGUI.queue: the tuples put and not yet got
    consumed,     \* history: every tuple _process_queue got, in order
    organize_btn, \* state of the start button: "normal" | "disabled"
    cancel_btn,   \* state of the cancel button: "normal" | "disabled"
    guiPc,        \* the caller's thread: "mainloop" | "drain" (_process_queue)
    drain_scheduled, \* root.after(100, self._process_queue) is pending
    paths_set,    \* source_var and dest_var are both non-empty
    runs,         \* history: the number of workers started
    progress_value, \* FileOrganizerGUI.progress_value
    progress_max, \* FileOrganizerGUI.progress_max
    notices,      \* the kinds of message box shown so far
    probe,        \* a direct call of get_unique_name: its arguments and result
    catCall       \* direct calls of categorize_file: arguments and results

\* The caller's own state (everything of FileOrganizerGUI but the queue).
guiVars == <<consumed, organize_btn, cancel_btn, guiPc, drain_scheduled,
             paths_set, runs, progress_value, progress_max, notices>>

\* The state of the direct calls of the two utilities.
pureVars == <<probe, catCall>>

vars == <<srcOK, src, dstDirs, dst, pc, files, total, moved_count, idx,
          stop_event, events, moves, stopCheck, lastUnique, envLeft,
          queue, guiVars, pureVars>>

\* queue_out.put of the tuples es, in order.
Put(es) ==
    /\ events' = events \o es
    /\ queue' = queue \o es

\* Sequences without repetition over a set, of every length.
RECURSIVE Orderings(_)
Orderings(S) ==
    IF S = {} THEN {<<>>}
    ELSE UNION { { <<x>> \o t : t \in Orderings(S \ {x}) } : x \in S }

Entries(srcdir) == {f \in Names : srcdir[f] # "none"}

\* No direct call of the utilities is in progress.
NoProbe == [called |-> 0, dir |-> {}, filename |-> NoName,
            result |-> NoName, previous |-> NoName]
NoCatCall == [called |-> FALSE, first |-> NoName, second |-> NoName,
              firstResult |-> "", secondResult |-> ""]

NoDirectCalls == probe = NoProbe /\ catCall = NoCatCall

\* The caller right after _on_organize has started the worker (lines
\* 260-266), nothing consumed yet.
WorkerStarted ==
    /\ queue = <<>>
    /\ consumed = <<>>
    /\ organize_btn = "disabled"
    /\ cancel_btn = "normal"
    /\ guiPc = "mainloop"
    /\ drain_scheduled = TRUE
    /\ paths_set = TRUE
    /\ runs = 1
    /\ progress_value = 0
    /\ progress_max = Cardinality({f \in Names : IsFile(src, f)})
    /\ notices = {}

Init ==
    /\ srcOK \in BOOLEAN
    /\ src \in [Names -> EntryKinds]
    /\ Cardinality(Entries(src)) <= MaxEntries
    /\ (~srcOK => Entries(src) = {})
    /\ \E d \in InitialDestinations : dstDirs = d[1] /\ dst = d[2]
    /\ pc = "listing"
    /\ files = <<>>
    /\ total = 0
    /\ moved_count = 0
    /\ idx = 0
    /\ stop_event = FALSE
    /\ events = <<>>
    /\ moves = <<>>
    /\ stopCheck = 0
    /\ lastUnique = [called |-> FALSE, dir |-> {}, filename |-> NoName, result |-> NoName]
    /\ envLeft = MaxEnv
    /\ WorkerStarted
    /\ NoDirectCalls

(* ------------------------ OrganizerWorker.run ------------------------- *)

\* ListedFiles without the os.path.isfile filter of line 80.
ListedFiles_NoFilter(srcdir) == Entries(srcdir)

\* The source entries the list comprehension keeps.
ListedFiles(srcdir) == {f \in Names : IsFile(srcdir, f)}

\* Lines 79-87, os.listdir succeeds: files, total, moved_count are set and
\* ("start", total) is put.  os.listdir returns the entries in any order.
Listing ==
    /\ pc = "listing"
    /\ srcOK
    /\ \E listing \in Orderings(ListedFiles(src)) :
          /\ files' = listing
          /\ total' = Len(listing)
          /\ Put(<<EvStart(Len(listing))>>)
    /\ moved_count' = 0
    /\ pc' = "preparing"
    /\ UNCHANGED <<srcOK, src, dstDirs, dst, idx, stop_event, moves,
                   stopCheck, lastUnique, envLeft,
                   guiVars, pureVars>>

\* ListingFails without the return of line 83: run goes on to line 85.
ListingFails_NoReturn ==
    /\ pc = "listing"
    /\ ~srcOK
    /\ Put(<<EvError>>)
    /\ pc' = "preparing"
    /\ UNCHANGED <<srcOK, src, dstDirs, dst, files, total, moved_count, idx,
                   stop_event, moves, stopCheck, lastUnique, envLeft,
                   guiVars, pureVars>>

\* Lines 81-83, os.listdir raises: ("error", ...) is put and run returns.
ListingFails ==
    /\ pc = "listing"
    /\ ~srcOK
    /\ Put(<<EvError>>)
    /\ pc' = "failed"
    /\ UNCHANGED <<srcOK, src, dstDirs, dst, files, total, moved_count, idx,
                   stop_event, moves, stopCheck, lastUnique, envLeft,
                   guiVars, pureVars>>

\* The folders lines 89-91 create, in order.
FolderOrder == CategoryOrder \o <<OTHER_FOLDER_NAME>>

\* Where the for loop of line 93 goes once index i is behind it.
LoopFrom(i) == IF i <= total THEN "check" ELSE "finish"

\* Preparing without line 91: the Others folder is not created up front.
Preparing_NoOthers ==
    /\ pc = "preparing"
    /\ dstDirs' = dstDirs \cup (AllFolders \ {OTHER_FOLDER_NAME})
    /\ idx' = 1
    /\ pc' = LoopFrom(1)
    /\ UNCHANGED <<srcOK, src, dst, files, total, moved_count, stop_event,
                   events, queue, moves, stopCheck, lastUnique, envLeft,
                   guiVars, pureVars>>

\* Lines 89-91, every os.makedirs succeeds (exist_ok: existing folders are
\* kept); the loop of line 93 starts.
Preparing ==
    /\ pc = "preparing"
    /\ dstDirs' = dstDirs \cup AllFolders
    /\ idx' = 1
    /\ pc' = LoopFrom(1)
    /\ UNCHANGED <<srcOK, src, dst, files, total, moved_count, stop_event,
                   events, queue, moves, stopCheck, lastUnique, envLeft,
                   guiVars, pureVars>>

\* Lines 89-91, the (n+1)-th os.makedirs raises (the destination root is not
\* writable, or the path exists and is not a directory): the exception is
\* caught nowhere in run, so the thread ends there.
PreparingFails ==
    /\ pc = "preparing"
    /\ \E n \in 0..(Len(FolderOrder) - 1) :
          dstDirs' = dstDirs \cup {FolderOrder[k] : k \in 1..n}
    /\ pc' = "crashed"
    /\ UNCHANGED <<srcOK, src, dst, files, total, moved_count, idx, stop_event,
                   events, queue, moves, stopCheck, lastUnique, envLeft,
                   guiVars, pureVars>>

\* CheckCancelled without the break of line 96: the line is put and the
\* file is handled all the same.
CheckCancelled_NoBreak ==
    /\ pc = "check"
    /\ stop_event
    /\ Put(<<EvCancelled>>)
    /\ pc' = "process"
    /\ UNCHANGED <<srcOK, src, dstDirs, dst, files, total, moved_count, idx,
                   stop_event, moves, stopCheck, lastUnique, envLeft,
                   guiVars, pureVars>>

\* Lines 94-96, the flag is set: the cancellation line is put and the loop
\* is left.
CheckCancelled ==
    /\ pc = "check"
    /\ stop_event
    /\ Put(<<EvCancelled>>)
    /\ pc' = "finish"
    /\ UNCHANGED <<srcOK, src, dstDirs, dst, files, total, moved_count, idx,
                   stop_event, moves, stopCheck, lastUnique, envLeft,
                   guiVars, pureVars>>

\* CheckContinue that does not read the flag: a set flag may go unnoticed.
CheckContinue_Unchecked ==
    /\ pc = "check"
    /\ pc' = "process"
    /\ UNCHANGED <<srcOK, src, dstDirs, dst, files, total, moved_count, idx,
                   stop_event, events, queue, moves, stopCheck, lastUnique, envLeft,
                   guiVars, pureVars>>

\* Line 94, the flag is not set: the file of this iteration is handled.
CheckContinue ==
    /\ pc = "check"
    /\ ~stop_event
    /\ pc' = "process"
    /\ UNCHANGED <<srcOK, src, dstDirs, dst, files, total, moved_count, idx,
                   stop_event, events, queue, moves, stopCheck, lastUnique, envLeft,
                   guiVars, pureVars>>

\* SkipFile without the Progress of line 101.
SkipFile_NoProgress ==
    /\ pc = "process"
    /\ ~IsFile(src, files[idx])
    /\ Put(<<EvSkip(files[idx])>>)
    /\ idx' = idx + 1
    /\ pc' = LoopFrom(idx + 1)
    /\ UNCHANGED <<srcOK, src, dstDirs, dst, files, total, moved_count,
                   stop_event, moves, stopCheck, lastUnique, envLeft,
                   guiVars, pureVars>>

\* Lines 99-102: the entry is not a regular file any more.
SkipFile ==
    /\ pc = "process"
    /\ ~IsFile(src, files[idx])
    /\ Put(<<EvSkip(files[idx]), EvProgress(idx)>>)
    /\ idx' = idx + 1
    /\ pc' = LoopFrom(idx + 1)
    /\ UNCHANGED <<srcOK, src, dstDirs, dst, files, total, moved_count,
                   stop_event, moves, stopCheck, lastUnique, envLeft,
                   guiVars, pureVars>>

\* Line 104: categorize_file(filename) or OTHER_FOLDER_NAME
CategoryOf(filename) ==
    LET c == categorize_file(filename) IN
    IF c = "None" THEN OTHER_FOLDER_NAME ELSE c

\* MoveFile that copies: the file stays in the source.
MoveFile_Copies ==
    /\ pc = "process"
    /\ IsFile(src, files[idx])
    /\ LET filename == files[idx]
           category == CategoryOf(filename)
           unique_name == get_unique_name(dst[category], filename)
       IN  /\ dstDirs' = dstDirs \cup {category}
           /\ lastUnique' = [called |-> TRUE, dir |-> dst[category],
                             filename |-> filename, result |-> unique_name]
           /\ moves' = Append(moves, [name |-> filename, cat |-> category,
                                     dest |-> unique_name,
                                     existed |-> unique_name \in dst[category],
                                     index |-> idx])
           /\ dst' = [dst EXCEPT ![category] = @ \cup {unique_name}]
           /\ moved_count' = moved_count + 1
           /\ Put(<<EvMoved(filename, category, unique_name),
                    EvProgress(idx)>>)
    /\ idx' = idx + 1
    /\ pc' = LoopFrom(idx + 1)
    /\ UNCHANGED <<srcOK, src, files, total, stop_event, stopCheck, envLeft,
                   guiVars, pureVars>>

\* Lines 104-113 and 117, nothing raises: the file is moved to its category
\* folder under a name get_unique_name chose.
MoveFile ==
    /\ pc = "process"
    /\ IsFile(src, files[idx])
    /\ LET filename == files[idx]
           category == CategoryOf(filename)
           unique_name == get_unique_name(dst[category], filename)
       IN  /\ dstDirs' = dstDirs \cup {category}
           /\ lastUnique' = [called |-> TRUE, dir |-> dst[category],
                             filename |-> filename, result |-> unique_name]
           /\ moves' = Append(moves, [name |-> filename, cat |-> category,
                                     dest |-> unique_name,
                                     existed |-> unique_name \in dst[category],
                                     index |-> idx])
           /\ src' = [src EXCEPT ![filename] = "none"]
           /\ dst' = [dst EXCEPT ![category] = @ \cup {unique_name}]
           /\ moved_count' = moved_count + 1
           /\ Put(<<EvMoved(filename, category, unique_name),
                                    EvProgress(idx)>>)
    /\ idx' = idx + 1
    /\ pc' = LoopFrom(idx + 1)
    /\ UNCHANGED <<srcOK, files, total, stop_event, stopCheck, envLeft,
                   guiVars, pureVars>>

\* FileFails with the batch given up at the first failure.
FileFails_Aborts ==
    /\ pc = "process"
    /\ IsFile(src, files[idx])
    /\ Put(<<EvFailed(files[idx]), EvProgress(idx)>>)
    /\ idx' = idx + 1
    /\ pc' = "finish"
    /\ UNCHANGED <<srcOK, src, dstDirs, dst, files, total, moved_count,
                   stop_event, moves, stopCheck, lastUnique, envLeft,
                   guiVars, pureVars>>

\* FileFails with moved_count incremented before the move is attempted.
FileFails_Counts ==
    /\ pc = "process"
    /\ IsFile(src, files[idx])
    /\ Put(<<EvFailed(files[idx]), EvProgress(idx)>>)
    /\ moved_count' = moved_count + 1
    /\ idx' = idx + 1
    /\ pc' = LoopFrom(idx + 1)
    /\ UNCHANGED <<srcOK, src, dstDirs, dst, files, total,
                   stop_event, moves, stopCheck, lastUnique, envLeft,
                   guiVars, pureVars>>

\* Lines 104-110 raise and lines 114-117 handle it: os.makedirs of line 106
\* fails, or the probing or the move after it fails and leaves the file
\* where it was.  The error line and the progress are put.
FileFails ==
    /\ pc = "process"
    /\ IsFile(src, files[idx])
    /\ \E stage \in {"makedirs", "move"} :
          dstDirs' = IF stage = "makedirs" THEN dstDirs
                     ELSE dstDirs \cup {CategoryOf(files[idx])}
    /\ Put(<<EvFailed(files[idx]), EvProgress(idx)>>)
    /\ idx' = idx + 1
    /\ pc' = LoopFrom(idx + 1)
    /\ UNCHANGED <<srcOK, src, dst, files, total, moved_count, stop_event,
                   moves, stopCheck, lastUnique, envLeft,
                   guiVars, pureVars>>

\* Line 119.
EmitDone ==
    /\ pc = "finish"
    /\ Put(<<EvDone(moved_count)>>)
    /\ pc' = "done"
    /\ UNCHANGED <<srcOK, src, dstDirs, dst, files, total, moved_count, idx,
                   stop_event, moves, stopCheck, lastUnique, envLeft,
                   guiVars, pureVars>>

(* ------------------------ OrganizerWorker.stop ------------------------ *)

\* The index of the next cancellation check of the loop, total + 1 when no
\* check is left.
NextCheck ==
    CASE pc \in {"listing", "preparing"} -> 1
      [] pc = "check"                    -> idx
      [] pc = "process"                  -> idx + 1
      [] OTHER                           -> total + 1

\* stop(), called from the caller's thread at any moment: sets the event.
\* Setting it again changes nothing.
Stop ==
    /\ stop_event' = TRUE
    /\ stopCheck' = IF stop_event THEN stopCheck ELSE NextCheck
    /\ UNCHANGED <<srcOK, src, dstDirs, dst, pc, files, total, moved_count,
                   idx, events, queue, moves, lastUnique, envLeft,
                   guiVars, pureVars>>

(* --------------------------- the environment -------------------------- *)

\* Another actor removes a source file, or replaces it by a directory,
\* while the worker runs.
SourceChanges ==
    /\ pc \in {"preparing", "check", "process"}
    /\ envLeft > 0
    /\ \E f \in Names, k \in {"none", "dir"} :
          /\ src[f] = "file"
          /\ src' = [src EXCEPT ![f] = k]
    /\ envLeft' = envLeft - 1
    /\ UNCHANGED <<srcOK, dstDirs, dst, pc, files, total, moved_count, idx,
                   stop_event, events, queue, moves, stopCheck, lastUnique,
                   guiVars, pureVars>>

(* ---------------------------- specification --------------------------- *)

Next ==
    \/ Listing
    \/ ListingFails
    \/ Preparing
    \/ PreparingFails
    \/ CheckCancelled
    \/ CheckContinue
    \/ SkipFile
    \/ MoveFile
    \/ FileFails
    \/ EmitDone
    \/ Stop
    \/ SourceChanges

Spec == Init /\ [][Next]_vars

(* ------------------- the utilities, called directly ------------------- *)

\* Largest number of successive calls of get_unique_name on one directory.
MaxCalls == 2

NameAPng2   == <<"a"," ","(","2",")",".","p","n","g">>
NameDotGz1  == <<".","g","z"," ","(","1",")">>
NameAMixed  == <<"A",".","P","n","g">>
NameBPdfUp  == <<"B",".","P","D","F">>
NameTarGz   == <<"e",".","t","a","r",".","g","z">>
NameNoExt   == <<"d">>
NameJpegUp  == <<"x",".","J","P","E","G">>
NameMp3     == <<"m",".","M","p","3">>
NamePngTxt  == <<"p","n","g",".","t","x","t">>

\* The names a probed directory may hold, and the names probed for.
ProbeDirNames == {NameAPng, NameAPng1, NameAPng2, NameDotGz, NameDotGz1, NameBPdf}
ProbeFiles == {NameAPng, NameAPngUp, NameDotGz, NameBPdf, NameNoExt}

\* The names categorize_file is called with.
CatNames == {NameAPng, NameAPngUp, NameAMixed, NameBPdf, NameBPdfUp, NameCXyz,
             NameDotGz, NameTarGz, NameNoExt, NameJpegUp, NameMp3, NamePngTxt}

\* The caller as __init__ leaves it (lines 123-136, 177, 183-184): no
\* worker, the start button enabled, the cancel button disabled, the drain
\* scheduled.
GuiIdle ==
    /\ queue = <<>>
    /\ consumed = <<>>
    /\ organize_btn = "normal"
    /\ cancel_btn = "disabled"
    /\ guiPc = "mainloop"
    /\ drain_scheduled = TRUE
    /\ paths_set = FALSE
    /\ runs = 0
    /\ progress_value = 0
    /\ progress_max = 100
    /\ notices = {}

\* No worker has been created (self.worker = None).
NoWorker ==
    /\ pc = "none"
    /\ files = <<>>
    /\ total = 0
    /\ moved_count = 0
    /\ idx = 0
    /\ stop_event = FALSE
    /\ events = <<>>
    /\ moves = <<>>
    /\ stopCheck = 0
    /\ lastUnique = [called |-> FALSE, dir |-> {}, filename |-> NoName, result |-> NoName]

UtilInit ==
    /\ srcOK = TRUE
    /\ src = [f \in Names |-> "none"]
    /\ dstDirs = {}
    /\ dst = NoFolders
    /\ envLeft = 0
    /\ NoWorker
    /\ GuiIdle
    /\ \E d \in SUBSET ProbeDirNames, f \in ProbeFiles :
          probe = [NoProbe EXCEPT !.dir = d, !.filename = f]
    /\ catCall = NoCatCall

\* CallUnique for a get_unique_name that reserves the name it returns by
\* creating it.
CallUnique_Creates ==
    /\ probe.called < MaxCalls
    /\ LET r == get_unique_name(probe.dir, probe.filename) IN
       probe' = [called |-> probe.called + 1,
                 dir |-> probe.dir \cup {r},
                 filename |-> probe.filename,
                 result |-> r,
                 previous |-> probe.result]
    /\ UNCHANGED <<srcOK, src, dstDirs, dst, pc, files, total, moved_count, idx,
                   stop_event, events, moves, stopCheck, lastUnique, envLeft,
                   queue, guiVars, catCall>>

\* One call get_unique_name(dest_dir, filename), lines 47-54: the directory
\* is only asked whether names exist (line 51), so it is after the call
\* what it was before.
CallUnique ==
    /\ probe.called < MaxCalls
    /\ probe' = [called |-> probe.called + 1,
                 dir |-> probe.dir,
                 filename |-> probe.filename,
                 result |-> get_unique_name(probe.dir, probe.filename),
                 previous |-> probe.result]
    /\ UNCHANGED <<srcOK, src, dstDirs, dst, pc, files, total, moved_count, idx,
                   stop_event, events, moves, stopCheck, lastUnique, envLeft,
                   queue, guiVars, catCall>>

\* Two calls of categorize_file, lines 56-61, on any two names.
CallCategorize ==
    /\ ~catCall.called
    /\ \E a \in CatNames, b \in CatNames :
          catCall' = [called |-> TRUE, first |-> a, second |-> b,
                      firstResult |-> categorize_file(a),
                      secondResult |-> categorize_file(b)]
    /\ UNCHANGED <<srcOK, src, dstDirs, dst, pc, files, total, moved_count, idx,
                   stop_event, events, moves, stopCheck, lastUnique, envLeft,
                   queue, guiVars, probe>>

UtilNext == CallUnique \/ CallCategorize

UtilSpec == UtilInit /\ [][UtilNext]_vars

(* -------------------------- FileOrganizerGUI -------------------------- *)

\* Largest number of workers one session starts.
MaxRuns == 2

\* The source files and the destination trees of a session.
GuiNames == {NameAPng, NameCXyz}

GuiDestinations ==
    { <<{}, NoFolders>>,
      <<{"Images"}, [NoFolders EXCEPT !["Images"] = {NameAPng}]>> }

\* The session right after FileOrganizerGUI.__init__.
GuiInit ==
    /\ srcOK \in BOOLEAN
    /\ src \in [Names -> {"none", "file"}]
    /\ Entries(src) \subseteq GuiNames
    /\ Cardinality(Entries(src)) <= MaxEntries
    /\ (~srcOK => Entries(src) = {})
    /\ \E d \in GuiDestinations : dstDirs = d[1] /\ dst = d[2]
    /\ envLeft = MaxEnv
    /\ NoWorker
    /\ GuiIdle
    /\ NoDirectCalls

\* The worker thread exists and has not left run() (worker.is_alive()).
IsAlive == pc \notin {"none", "done", "failed", "crashed"}

\* _browse_source and _browse_dest, lines 241-251: both folders are chosen.
Browse ==
    /\ guiPc = "mainloop"
    /\ ~paths_set
    /\ paths_set' = TRUE
    /\ UNCHANGED <<srcOK, src, dstDirs, dst, pc, files, total, moved_count, idx,
                   stop_event, events, moves, stopCheck, lastUnique, envLeft,
                   queue, consumed, organize_btn, cancel_btn, guiPc,
                   drain_scheduled, runs, progress_value, progress_max,
                   notices, pureVars>>

\* _on_organize, lines 255-259: a folder is missing, an error box is shown.
OnOrganizeNoPaths ==
    /\ guiPc = "mainloop"
    /\ organize_btn = "normal"
    /\ ~paths_set
    /\ notices' = notices \cup {"select folders"}
    /\ UNCHANGED <<srcOK, src, dstDirs, dst, pc, files, total, moved_count, idx,
                   stop_event, events, moves, stopCheck, lastUnique, envLeft,
                   queue, consumed, organize_btn, cancel_btn, guiPc,
                   drain_scheduled, paths_set, runs, progress_value,
                   progress_max, pureVars>>

\* _on_organize, lines 260-263, os.listdir of line 263 raises: the buttons
\* have been switched, the callback ends there and no worker is created.
OnOrganizeListFails ==
    /\ guiPc = "mainloop"
    /\ organize_btn = "normal"
    /\ paths_set
    /\ ~srcOK
    /\ organize_btn' = "disabled"
    /\ cancel_btn' = "normal"
    /\ progress_value' = 0
    /\ UNCHANGED <<srcOK, src, dstDirs, dst, pc, files, total, moved_count, idx,
                   stop_event, events, moves, stopCheck, lastUnique, envLeft,
                   queue, consumed, guiPc, drain_scheduled, paths_set, runs,
                   progress_max, notices, pureVars>>

\* _on_organize, lines 260-266: the buttons are switched, the progress is
\* reset, a new OrganizerWorker (with a new, unset stop event) is created
\* and started.
OnOrganize ==
    /\ guiPc = "mainloop"
    /\ organize_btn = "normal"
    /\ paths_set
    /\ srcOK
    /\ runs < MaxRuns
    /\ organize_btn' = "disabled"
    /\ cancel_btn' = "normal"
    /\ progress_value' = 0
    /\ progress_max' = Cardinality(ListedFiles(src))
    /\ pc' = "listing"
    /\ files' = <<>>
    /\ total' = 0
    /\ moved_count' = 0
    /\ idx' = 0
    /\ stop_event' = FALSE
    /\ stopCheck' = 0
    /\ runs' = runs + 1
    /\ UNCHANGED <<srcOK, src, dstDirs, dst, events, moves, lastUnique, envLeft,
                   queue, consumed, guiPc, drain_scheduled, paths_set,
                   notices, pureVars>>

\* _on_cancel, lines 268-273: stop() when the worker is alive, a log line
\* only otherwise.
OnCancel ==
    /\ guiPc = "mainloop"
    /\ cancel_btn = "normal"
    /\ IF IsAlive
       THEN /\ stop_event' = TRUE
            /\ stopCheck' = IF stop_event THEN stopCheck ELSE NextCheck
       ELSE UNCHANGED <<stop_event, stopCheck>>
    /\ UNCHANGED <<srcOK, src, dstDirs, dst, pc, files, total, moved_count,
                   idx, events, moves, lastUnique, envLeft, queue, guiVars,
                   pureVars>>

\* The timer of root.after(100, self._process_queue) fires.
StartDrain ==
    /\ guiPc = "mainloop"
    /\ drain_scheduled
    /\ guiPc' = "drain"
    /\ drain_scheduled' = FALSE
    /\ UNCHANGED <<srcOK, src, dstDirs, dst, pc, files, total, moved_count, idx,
                   stop_event, events, moves, stopCheck, lastUnique, envLeft,
                   queue, consumed, organize_btn, cancel_btn, paths_set, runs,
                   progress_value, progress_max, notices, pureVars>>

\* Handle that re-enables the start button on every item.
Handle_AlwaysEnables(item) ==
    /\ progress_value' =
          CASE item.kind = "progress" -> item.num
            [] item.kind = "done"     -> progress_max
            [] OTHER                  -> progress_value
    /\ notices' = IF item.kind = "done" THEN notices \cup {"success"} ELSE notices
    /\ organize_btn' = "normal"
    /\ cancel_btn' = IF item.kind = "done" THEN "disabled" ELSE cancel_btn

\* What lines 280-290 do with one item.
Handle(item) ==
    /\ progress_value' =
          CASE item.kind = "progress" -> item.num
            [] item.kind = "done"     -> progress_max
            [] OTHER                  -> progress_value
    /\ notices' = IF item.kind = "done" THEN notices \cup {"success"} ELSE notices
    /\ organize_btn' = IF item.kind = "done" THEN "normal" ELSE organize_btn
    /\ cancel_btn' = IF item.kind = "done" THEN "disabled" ELSE cancel_btn

\* DrainItem that takes the newest item first.
DrainItem_Lifo ==
    /\ guiPc = "drain"
    /\ queue # <<>>
    /\ queue' = SubSeq(queue, 1, Len(queue) - 1)
    /\ consumed' = Append(consumed, queue[Len(queue)])
    /\ Handle(queue[Len(queue)])
    /\ UNCHANGED <<srcOK, src, dstDirs, dst, pc, files, total, moved_count, idx,
                   stop_event, events, moves, stopCheck, lastUnique, envLeft,
                   guiPc, drain_scheduled, paths_set, runs, progress_max,
                   pureVars>>

\* _process_queue, lines 279-290: get_nowait returns the oldest item and it
\* is handled.
DrainItem ==
    /\ guiPc = "drain"
    /\ queue # <<>>
    /\ queue' = Tail(queue)
    /\ consumed' = Append(consumed, Head(queue))
    /\ Handle(Head(queue))
    /\ UNCHANGED <<srcOK, src, dstDirs, dst, pc, files, total, moved_count, idx,
                   stop_event, events, moves, stopCheck, lastUnique, envLeft,
                   guiPc, drain_scheduled, paths_set, runs, progress_max,
                   pureVars>>

\* _process_queue, lines 291-293: get_nowait raises queue.Empty, the loop is
\* left and the next drain is scheduled.
DrainEmpty ==
    /\ guiPc = "drain"
    /\ queue = <<>>
    /\ guiPc' = "mainloop"
    /\ drain_scheduled' = TRUE
    /\ UNCHANGED <<srcOK, src, dstDirs, dst, pc, files, total, moved_count, idx,
                   stop_event, events, moves, stopCheck, lastUnique, envLeft,
                   queue, consumed, organize_btn, cancel_btn, paths_set, runs,
                   progress_value, progress_max, notices, pureVars>>

\* The source folder stops being listable (removed, or made unreadable)
\* after _on_organize has listed it and before the worker does.
SourceLost ==
    /\ pc = "listing"
    /\ srcOK
    /\ srcOK' = FALSE
    /\ UNCHANGED <<src, dstDirs, dst, pc, files, total, moved_count, idx,
                   stop_event, events, moves, stopCheck, lastUnique, envLeft,
                   queue, guiVars, pureVars>>

GuiNext ==
    \/ Browse
    \/ OnOrganizeNoPaths
    \/ OnOrganizeListFails
    \/ OnOrganize
    \/ OnCancel
    \/ StartDrain
    \/ DrainItem
    \/ DrainEmpty
    \/ Listing
    \/ ListingFails
    \/ Preparing
    \/ PreparingFails
    \/ CheckCancelled
    \/ CheckContinue
    \/ SkipFile
    \/ MoveFile
    \/ FileFails
    \/ EmitDone
    \/ SourceChanges
    \/ SourceLost

GuiSpec == GuiInit /\ [][GuiNext]_vars

(* ------------------------------ properties ---------------------------- *)

\* The thread has left run(): by line 119, by the return of line 83, or by
\* an exception nothing caught.
Ended == pc \in {"done", "failed", "crashed"}

Positions(kind) == {i \in 1..Len(events) : events[i].kind = kind}
Logs(tag) == {i \in 1..Len(events) : events[i].kind = "log" /\ events[i].tag = tag}

IsProgress(e) == e.kind = "progress"

\* The indices the Progress events carry, in the order they were put.
ProgressNums ==
    LET ps == SelectSeq(events, IsProgress) IN [i \in 1..Len(ps) |-> ps[i].num]

\* The log lines that report one file's attempt.
FileLogs == Logs("moved") \cup Logs("skip") \cup Logs("error")

\* A step of the worker thread that handles the file of the iteration.
FileStep == pc = "process" /\ pc' # "process"

\* C1: in a run whose listing succeeded, the events are one Start, first,
\* then only LogLine/Progress events, then one Done, last; nothing follows
\* Done.
C1_StartFirstDoneLast ==
    (srcOK /\ Ended) =>
        /\ Len(events) >= 2
        /\ Positions("start") = {1}
        /\ Positions("done") = {Len(events)}
        /\ \A i \in 2..(Len(events) - 1) : events[i].kind \in {"log", "progress"}

\* C2: a run that has emitted Start ends with Done emitted, whatever fails
\* after the listing.
C2_StartedRunEmitsDone ==
    (Ended /\ Positions("start") # {}) => Positions("done") # {}

\* C3: when listing the source fails, the run emits one Error event and
\* nothing else, creates no directory and moves no file.
C3_ListingFailureOnlyError ==
    /\ [](~srcOK =>
            /\ events \in {<<>>, <<EvError>>}
            /\ (pc # "listing" => pc = "failed" /\ events = <<EvError>>)
            /\ moves = <<>>)
    /\ [][~srcOK => dstDirs' = dstDirs /\ dst' = dst /\ src' = src]_vars

C3_Witness == ~srcOK /\ pc = "failed" /\ events = <<EvError>>

\* C4: a failure while handling one file puts an error line and the
\* Progress of that file's index, leaves the moved count and both
\* directories' files alone, and the loop goes on with the next file exactly
\* as after a success; a run that was not cancelled attempts every file
\* listed after a failed one.
C4_FailureDoesNotAbort ==
    /\ [][(FileStep /\ IsFile(src, files[idx]) /\ moves' = moves) =>
            /\ events' = events \o <<EvFailed(files[idx]), EvProgress(idx)>>
            /\ moved_count' = moved_count
            /\ src' = src /\ dst' = dst
            /\ files' = files /\ total' = total
            /\ idx' = idx + 1
            /\ pc' = (IF idx < total THEN "check" ELSE "finish")]_vars
    /\ []((pc = "done" /\ Logs("error") # {} /\ Logs("cancelled") = {}) =>
            \A i \in 1..total : \E p \in Positions("progress") : events[p].num = i)

C4_Witness ==
    /\ pc = "done"
    /\ \E i \in Logs("error"), j \in Logs("moved") : i < j

\* C5: the Progress events carry 1, 2, ..., k in that order, k <= total; k is
\* total when the run was not cancelled, and the number of files handled
\* before the cancellation was observed otherwise.
C5_ProgressIndices ==
    LET k == Len(ProgressNums) IN
    /\ ProgressNums = [i \in 1..k |-> i]
    /\ k <= total
    /\ Ended => k = (IF Logs("cancelled") # {} THEN Cardinality(FileLogs) ELSE total)

\* C6: when Done is emitted, its count is the number of success lines and
\* the number of moves performed, and count <= number of Progress events
\* <= the total announced in Start.
C6_DoneCount ==
    pc = "done" =>
        LET done == events[Len(events)] IN
        /\ done.kind = "done"
        /\ done.num = Cardinality(Logs("moved"))
        /\ done.num = Len(moves)
        /\ done.num = Cardinality({f \in Names : src[f] = "none" /\
                          \E i \in 1..Len(moves) : moves[i].name = f /\
                             moves[i].dest \in dst[moves[i].cat]})
        /\ done.num <= Cardinality(Positions("progress"))
        /\ events[1].kind = "start"
        /\ Cardinality(Positions("progress")) <= events[1].num

C6_Witness ==
    /\ pc = "done"
    /\ events[Len(events)].num = 1
    /\ Cardinality(Positions("progress")) = 2
    /\ Logs("error") # {}

\* C7: a check that finds the flag set puts one cancellation line, handles
\* neither that file nor a later one, and Done follows with the number of
\* files moved before the check.
C7_CancelledCheck ==
    /\ [][(pc = "check" /\ stop_event /\ pc' # "check") =>
            /\ events' = Append(events, EvCancelled)
            /\ pc' = "finish"
            /\ src' = src /\ dst' = dst /\ moves' = moves
            /\ moved_count' = moved_count]_vars
    /\ []((pc = "finish" /\ Logs("cancelled") # {}) =>
            /\ events[Len(events)] = EvCancelled
            /\ ENABLED EmitDone)
    /\ []((pc = "done" /\ Logs("cancelled") # {}) =>
            /\ Cardinality(Logs("cancelled")) = 1
            /\ events[Len(events) - 1] = EvCancelled
            /\ events[Len(events)] = EvDone(Cardinality(Logs("moved")))
            /\ Cardinality(Positions("progress")) = idx - 1
            /\ \A i \in idx..total :
                  /\ \A p \in Positions("progress") : events[p].num # i
                  /\ \A m \in 1..Len(moves) : moves[m].index # i)

C7_Witness ==
    /\ pc = "done"
    /\ Logs("cancelled") # {}
    /\ Logs("moved") # {}
    /\ idx <= total

\* C8: once stop() has set the flag before the check of file k, at most
\* k-1 Progress events are ever emitted, no file from k on is moved, Done
\* reports at most k-1, and nothing that was moved is taken back.
C8_CooperativeCancel ==
    /\ []((stopCheck > 0) =>
            /\ Cardinality(Positions("progress")) <= stopCheck - 1
            /\ \A m \in 1..Len(moves) : moves[m].index <= stopCheck - 1
            /\ moved_count <= stopCheck - 1
            /\ \A p \in Positions("done") : events[p].num <= stopCheck - 1)
    /\ [][/\ \A c \in AllFolders : dst[c] \subseteq dst'[c]
          /\ \A m \in 1..Len(moves) :
                /\ moves'[m] = moves[m]
                /\ moves[m].dest \in dst'[moves[m].cat]]_vars

C8_Witness ==
    /\ pc = "done"
    /\ stop_event
    /\ stopCheck = 2
    /\ stopCheck <= total
    /\ Len(moves) = 1
    /\ Logs("cancelled") # {}

\* C9: every move goes to a path that did not exist when it was made, and
\* no two moves of the run go to the same path.
C9_NoOverwrite ==
    /\ \A m \in 1..Len(moves) : ~moves[m].existed
    /\ \A m, n \in 1..Len(moves) :
          (moves[m].cat = moves[n].cat /\ moves[m].dest = moves[n].dest) => m = n

C9_Witness ==
    \E m, n \in 1..Len(moves) :
        /\ m < n
        /\ moves[m].cat = moves[n].cat
        /\ moves[m].dest # moves[m].name
        /\ Lower(moves[m].name) = Lower(moves[n].name)

\* C10: get_unique_name returns the name unchanged when it is free in the
\* directory, and otherwise "stem (N)ext" for the smallest N >= 1 that is
\* free, (stem, ext) being the name split at its last extension.
C10_UniqueName ==
    lastUnique.called =>
        LET D == lastUnique.dir
            F == lastUnique.filename
            R == lastUnique.result
            stem == SplitExt(F)[1]
            ext == SplitExt(F)[2]
        IN  /\ stem \o ext = F
            /\ (ext = <<>> \/ (ext[1] = "." /\ \A i \in 2..Len(ext) : ext[i] # "."))
            /\ (F \notin D => R = F)
            /\ (F \in D =>
                  \E N \in 1..(Cardinality(D) + 1) :
                      /\ R = Numbered(stem, N, ext)
                      /\ R \notin D
                      /\ \A M \in 1..(N - 1) : Numbered(stem, M, ext) \in D)

C10_Witness ==
    /\ lastUnique.called
    /\ lastUnique.filename = NameAPng
    /\ lastUnique.result = <<"a"," ","(","2",")",".","p","n","g">>


\* C11: get_unique_name only probes: a call leaves the directory as it
\* was, the name it returns does not exist in the directory, and a second
\* call with nothing created in between returns the same name.
C11_ReadOnlyProbe ==
    /\ [][probe'.dir = probe.dir]_vars
    /\ [](probe.called >= 1 => probe.result \notin probe.dir)
    /\ [](probe.called >= 2 => probe.result = probe.previous)

C11_Witness ==
    /\ probe.called = 2
    /\ probe.filename = NameAPng
    /\ probe.dir = {NameAPng, NameAPng1}
    /\ probe.result = NameAPng2
    /\ probe.previous = NameAPng2

\* Category c has an extension that is a literal suffix of the lower-cased
\* name f.
SuffixIn(f, c) ==
    \E k \in 1..Len(FILE_TYPES[c]) : EndsWith(Lower(f), FILE_TYPES[c][k])

\* r is what the claim says categorize_file returns for f.
FirstMatch(f, r) ==
    IF \A i \in 1..Len(CategoryOrder) : ~SuffixIn(f, CategoryOrder[i])
    THEN r = "None"
    ELSE \E i \in 1..Len(CategoryOrder) :
            /\ r = CategoryOrder[i]
            /\ SuffixIn(f, CategoryOrder[i])
            /\ \A j \in 1..(i - 1) : ~SuffixIn(f, CategoryOrder[j])

\* The two names differ at most in the case of their letters.
SameButCase(a, b) ==
    /\ Len(a) = Len(b)
    /\ \A i \in 1..Len(a) :
          \/ a[i] = b[i]
          \/ \E k \in 1..Len(UpperChars) :
                {a[i], b[i]} = {UpperChars[k], LowerChars[k]}

\* C12: categorize_file returns the first category, in table order, one of
\* whose extensions is a suffix of the lower-cased name, None when there is
\* none; names differing only in letter case get the same result.
C12_Categorize ==
    catCall.called =>
        /\ FirstMatch(catCall.first, catCall.firstResult)
        /\ FirstMatch(catCall.second, catCall.secondResult)
        /\ (SameButCase(catCall.first, catCall.second) =>
                catCall.firstResult = catCall.secondResult)
        /\ (catCall.first = NameAPng => catCall.firstResult = "Images")
        /\ (catCall.first = NameJpegUp => catCall.firstResult = "Images")
        /\ (catCall.first = NameBPdfUp => catCall.firstResult = "Documents")
        /\ (catCall.first = NameMp3 => catCall.firstResult = "Music")
        /\ (catCall.first = NameTarGz => catCall.firstResult = "Archives")
        /\ (catCall.first = NameDotGz => catCall.firstResult = "Archives")
        /\ (catCall.first = NamePngTxt => catCall.firstResult = "Documents")
        /\ (catCall.first = NameCXyz => catCall.firstResult = "None")
        /\ (catCall.first = NameNoExt => catCall.firstResult = "None")

C12_Witness ==
    /\ catCall.called
    /\ catCall.first = NameAPng
    /\ catCall.second = NameAMixed
    /\ catCall.firstResult = "Images"
    /\ catCall.secondResult = "Images"


\* The folder each name of the model belongs in, read off the table by hand.
ExpectedFolder(f) ==
    CASE f = NameAPng   -> "Images"
      [] f = NameAPngUp -> "Images"
      [] f = NameAPng1  -> "Images"
      [] f = NameBPdf   -> "Documents"
      [] f = NameCXyz   -> "Others"
      [] f = NameDotGz  -> "Archives"

\* C13: a run over N files with no failure, skip or cancellation emits
\* Start(N), then per file in listing order its success line and its
\* Progress, then Done(N); every listed file has left the source and is in
\* the folder of its category, Others when none matches.
C13_CleanRun ==
    (pc = "done" /\ Logs("skip") = {} /\ Logs("error") = {} /\ Logs("cancelled") = {}) =>
        LET N == Len(files) IN
        /\ Len(events) = 2 * N + 2
        /\ events[1] = EvStart(N)
        /\ events[2 * N + 2] = EvDone(N)
        /\ \A i \in 1..N :
              /\ events[2 * i].kind = "log"
              /\ events[2 * i].tag = "moved"
              /\ events[2 * i].name = files[i]
              /\ events[2 * i].cat = ExpectedFolder(files[i])
              /\ events[2 * i + 1] = EvProgress(i)
              /\ src[files[i]] = "none"
              /\ events[2 * i].dest \in dst[ExpectedFolder(files[i])]
              /\ ExpectedFolder(files[i]) \in dstDirs

C13_Witness ==
    /\ pc = "done"
    /\ files = <<NameAPng, NameCXyz>>
    /\ Len(events) = 6
    /\ events[6] = EvDone(2)
    /\ NameAPng \in dst["Images"]
    /\ NameCXyz \in dst["Others"]
    /\ src[NameAPng] = "none" /\ src[NameCXyz] = "none"

\* C14 as claimed: once Start has been emitted, every category folder and
\* Others exist under the destination, and Start carries the number of files
\* listed.
C14_PreparedBeforeStart ==
    Positions("start") # {} =>
        /\ AllFolders \subseteq dstDirs
        /\ events[1] = EvStart(Len(files))

\* C14, amended: Start is emitted right after the listing, with the number
\* of files listed, and before any folder is created; every category folder
\* and Others exist from the first iteration of the loop on.
C14_StartThenPrepared ==
    /\ [](Positions("start") # {} => events[1] = EvStart(Len(files)))
    /\ [][(Len(events') > Len(events) /\ events'[Len(events')].kind = "start") =>
            /\ events' = <<EvStart(Cardinality({f \in Names : src[f] = "file"}))>>
            /\ pc' = "preparing"
            /\ dstDirs' = dstDirs /\ dst' = dst]_vars
    /\ [](pc \in {"check", "process", "finish", "done"} => AllFolders \subseteq dstDirs)

C14_Witness ==
    /\ pc = "preparing"
    /\ events = <<EvStart(2)>>
    /\ dstDirs = {}

\* C15: an entry that is no regular file when its turn comes gets a skip
\* line and the Progress of its index; the moved count, the source and the
\* destination stay as they are, and the loop goes on with the next file.
C15_SkipLeavesAllAlone ==
    /\ [][(FileStep /\ ~IsFile(src, files[idx])) =>
            /\ events' = events \o <<EvSkip(files[idx]), EvProgress(idx)>>
            /\ moved_count' = moved_count
            /\ moves' = moves
            /\ src' = src /\ dst' = dst /\ dstDirs' = dstDirs
            /\ files' = files /\ total' = total
            /\ idx' = idx + 1
            /\ pc' = (IF idx < total THEN "check" ELSE "finish")]_vars
    /\ []((pc = "done" /\ Logs("skip") # {} /\ Logs("cancelled") = {}) =>
            \A i \in 1..total : \E p \in Positions("progress") : events[p].num = i)

C15_Witness ==
    /\ pc = "done"
    /\ \E i \in Logs("skip"), j \in Logs("moved") : i < j

\* C16: the listing holds each regular file of the source once and nothing
\* else; each listed file is attempted at most once and moved at most
\* once; only listed regular files are moved, and a sub-directory of the
\* source stays as it is.
C16_OnlyListedFilesOnce ==
    /\ [][(pc = "listing" /\ pc' = "preparing") =>
            /\ {files'[i] : i \in 1..Len(files')} = {f \in Names : src[f] = "file"}
            /\ \A i, j \in 1..Len(files') : files'[i] = files'[j] => i = j]_vars
    /\ [](\A i, j \in FileLogs : events[i].name = events[j].name => i = j)
    /\ [](\A m, n \in 1..Len(moves) : moves[m].name = moves[n].name => m = n)
    /\ [][moves' # moves =>
            /\ Len(moves') = Len(moves) + 1
            /\ \E i \in 1..Len(files) : files[i] = moves'[Len(moves')].name
            /\ src[moves'[Len(moves')].name] = "file"]_vars
    /\ [][\A f \in Names : src[f] = "dir" => src'[f] = "dir"]_vars

C16_Witness ==
    /\ pc = "done"
    /\ Len(moves) = 1
    /\ Len(files) = 1
    /\ \E f \in Names : src[f] = "dir" /\ f # files[1] /\ envLeft = MaxEnv


\* The Done events the caller has consumed.
DoneConsumed == {i \in 1..Len(consumed) : consumed[i].kind = "done"}

\* C17: the drain gets the events in the order the worker put them, each
\* once and none lost; it never waits for the worker: on an empty queue it
\* returns and the next drain is scheduled.
C17_FifoDrain ==
    /\ [](events = consumed \o queue)
    /\ [][consumed' # consumed =>
            /\ guiPc = "drain"
            /\ queue # <<>>
            /\ consumed' = Append(consumed, Head(queue))
            /\ queue' = Tail(queue)]_vars
    /\ [](guiPc = "drain" => (ENABLED DrainItem \/ ENABLED DrainEmpty))
    /\ []((guiPc = "drain" /\ queue = <<>>) => ENABLED DrainEmpty)
    /\ [][(guiPc = "drain" /\ guiPc' # "drain") =>
            /\ queue = <<>>
            /\ guiPc' = "mainloop"
            /\ drain_scheduled'
            /\ consumed' = consumed]_vars
    /\ [](guiPc = "mainloop" => drain_scheduled)

C17_Witness ==
    /\ guiPc = "drain"
    /\ Len(consumed) >= 3
    /\ Len(queue) >= 2
    /\ queue[1].kind = "progress"
    /\ IsAlive

\* C18: from the start of a worker until its Done has been consumed the
\* start button is disabled; a worker is started only when no worker is
\* running and nothing of an earlier worker is left on the queue.
C18_OneWorkerAtATime ==
    /\ [](runs > Cardinality(DoneConsumed) => organize_btn = "disabled")
    /\ [](IsAlive => organize_btn = "disabled")
    /\ [][runs' # runs =>
            /\ runs' = runs + 1
            /\ organize_btn = "normal"
            /\ ~IsAlive
            /\ pc \in {"none", "done"}
            /\ queue = <<>>
            /\ runs = Cardinality(DoneConsumed)]_vars

C18_Witness ==
    /\ runs = 2
    /\ pc = "process"
    /\ organize_btn = "disabled"
    /\ Cardinality(DoneConsumed) = 1

\* Nothing is running and nothing is pending: the worker, if any, has left
\* run(), the queue is drained and the caller is back in its main loop.
Quiescent ==
    /\ ~IsAlive
    /\ queue = <<>>
    /\ guiPc = "mainloop"

\* C19: after a start attempt, once everything has come to rest the caller
\* is idle again (start enabled, cancel disabled), however the run ended;
\* an Error event that was consumed has been shown to the user.
C19_BackToIdle ==
    /\ Quiescent => (organize_btn = "normal" /\ cancel_btn = "disabled")
    /\ (\E i \in 1..Len(consumed) : consumed[i].kind = "error") => notices # {}

====
